---- MODULE Spec2Model ----
(***************************************************************************)
(* Model of js/imageeditor/shared/types.ts:                                *)
(*   get_coordinates_of_clicked_image  - pointer event -> native pixel     *)
(*   click_outside                     - document-level outside-click      *)
(*                                       detector with a destroy handle    *)
(*                                                                         *)
(* JavaScript numbers are modelled as exact rationals <<num, den>> with    *)
(* den > 0 (IEEE-754 rounding of the divisions is not modelled).           *)
(***************************************************************************)
EXTENDS Integers, Sequences, FiniteSets, TLC

VARIABLES
    image,          \* mapper: the image element (bounding rect, natural size)
    evt,            \* mapper: the MouseEvent handed to the mapper
    coords,         \* mapper: the value returned (Null or <<x, y>>)
    mapPc,          \* mapper: "idle" before the call, "returned" after
    handles,        \* detector: one [node, cb] per click_outside call
    listeners,      \* detector: the document's capturing click listeners
    destroyCalls,   \* detector: destroy() called "never", "once", "repeated"
    lastOp,         \* detector: the operation that produced this state
    event,          \* detector: the click dispatched by the last step
    calls           \* detector: callback invocations made by the last step

mapVars == <<image, evt, coords, mapPc>>
detVars == <<handles, listeners, destroyCalls, lastOp, event, calls>>
vars == <<image, evt, coords, mapPc,
          handles, listeners, destroyCalls, lastOp, event, calls>>

(***************************************************************************)
(* Bounds of the model.                                                    *)
(***************************************************************************)
MaxDisp == 4        \* largest displayed width / height of the small grid
MaxNat == 3         \* largest natural width / height of the small grid
MaxRegs == 2        \* click_outside calls made
PosDen == 2         \* pointer positions are multiples of 1/PosDen pixel

(***************************************************************************)
(* Exact rational arithmetic standing for the JS number operators.         *)
(***************************************************************************)
Abs(n) == IF n < 0 THEN -n ELSE n

RECURSIVE Gcd(_, _)
Gcd(a, b) == IF b = 0 THEN a ELSE Gcd(b, a % b)

Norm(n, d) ==
    LET s == IF d < 0 THEN -1 ELSE 1
        g == Gcd(Abs(n), Abs(d))
    IN  <<(s * n) \div g, (s * d) \div g>>

Rat(n) == <<n, 1>>
RDiv(a, b) == Norm(a[1] * b[2], a[2] * b[1])
RMul(a, b) == Norm(a[1] * b[1], a[2] * b[2])
RSub(a, b) == Norm(a[1] * b[2] - b[1] * a[2], a[2] * b[2])
RAdd(a, b) == Norm(a[1] * b[2] + b[1] * a[2], a[2] * b[2])
RGt(a, b) == a[1] * b[2] > b[1] * a[2]
RLt(a, b) == a[1] * b[2] < b[1] * a[2]
RLe(a, b) == a[1] * b[2] <= b[1] * a[2]
Half == <<1, 2>>

\* floor of a rational
RFloor(a) == a[1] \div a[2]

\* Math.round with truncation toward zero instead of rounding
MathRoundTrunc(a) == IF a[1] >= 0 THEN a[1] \div a[2] ELSE -((-a[1]) \div a[2])

\* Math.round: nearest integer, ties toward +infinity
MathRound(a) == (2 * a[1] + a[2]) \div (2 * a[2])

(***************************************************************************)
(* get_coordinates_of_clicked_image                                        *)
(*   img : the element (getBoundingClientRect() and natural size)          *)
(*   e   : the MouseEvent (clientX, clientY)                               *)
(***************************************************************************)
Null == <<>>

xScale(img) == RDiv(Rat(img.naturalWidth), Rat(img.width))
yScale(img) == RDiv(Rat(img.naturalHeight), Rat(img.height))

\* the branch condition mistaken for its converse
WidthConstrainedSwapped(img) == RLt(xScale(img), yScale(img))

WidthConstrained(img) == RGt(xScale(img), yScale(img))

displayed_height(img) == RDiv(Rat(img.naturalHeight), xScale(img))
y_offset(img) == RDiv(RSub(Rat(img.height), displayed_height(img)), Rat(2))

displayed_width(img) == RDiv(Rat(img.naturalWidth), yScale(img))
x_offset(img) == RDiv(RSub(Rat(img.width), displayed_width(img)), Rat(2))

\* the if-branch: x, y from the width-derived scale
WidthBranch(img, e) ==
    << MathRound(RMul(RSub(e.clientX, Rat(img.left)), xScale(img))),
       MathRound(RMul(RSub(RSub(e.clientY, Rat(img.top)), y_offset(img)),
                      xScale(img))) >>

\* the else-branch: x, y from the height-derived scale
HeightBranch(img, e) ==
    << MathRound(RMul(RSub(RSub(e.clientX, Rat(img.left)), x_offset(img)),
                      yScale(img))),
       MathRound(RMul(RSub(e.clientY, Rat(img.top)), yScale(img))) >>

\* the bounds check with > in place of >=
OutOfRangeOffByOne(p, img) ==
    p[1] < 0 \/ p[1] > img.naturalWidth \/ p[2] < 0 \/ p[2] > img.naturalHeight

OutOfRange(p, img) ==
    p[1] < 0 \/ p[1] >= img.naturalWidth \/ p[2] < 0 \/ p[2] >= img.naturalHeight

get_coordinates_of_clicked_image(img, e) ==
    LET p == IF WidthConstrained(img) THEN WidthBranch(img, e)
                                      ELSE HeightBranch(img, e)
    IN  IF OutOfRange(p, img) THEN Null ELSE p

(***************************************************************************)
(* Inputs: a grid of small geometries plus the 200x100 box holding a       *)
(* 400x100 image; pointer positions over the bounding rectangle.           *)
(***************************************************************************)
ScenarioImage ==
    [left |-> 0, top |-> 0, width |-> 200, height |-> 100,
     naturalWidth |-> 400, naturalHeight |-> 100]

\* rect.left / rect.top of the grid geometries
Origins == {<<0, 0>>, <<3, 7>>}

GridImages ==
    { [left |-> o[1], top |-> o[2], width |-> w, height |-> h,
       naturalWidth |-> nw, naturalHeight |-> nh] :
         o \in Origins, w \in 1..MaxDisp, h \in 1..MaxDisp,
         nw \in 1..MaxNat, nh \in 1..MaxNat }

Images == GridImages \cup {ScenarioImage}

\* offsets from the rect origin, in units of 1/PosDen pixel
OffsetsX(img) ==
    IF img = ScenarioImage THEN {25 * PosDen * k : k \in 0..8}
    ELSE 0..(PosDen * img.width)

OffsetsY(img) ==
    IF img = ScenarioImage THEN {25 * PosDen * k : k \in 0..4}
    ELSE 0..(PosDen * img.height)

MouseEventAt(img, i, j) ==
    [clientX |-> RAdd(Rat(img.left), Norm(i, PosDen)),
     clientY |-> RAdd(Rat(img.top), Norm(j, PosDen))]

MouseEvents(img) ==
    { MouseEventAt(img, i, j) : i \in OffsetsX(img), j \in OffsetsY(img) }

MapInit ==
    /\ image \in Images
    /\ evt \in MouseEvents(image)
    /\ coords = Null
    /\ mapPc = "idle"

\* the pointer-event handler calls the mapper on its event
CallMapper ==
    /\ mapPc = "idle"
    /\ coords' = get_coordinates_of_clicked_image(image, evt)
    /\ mapPc' = "returned"
    /\ UNCHANGED <<image, evt>>

(***************************************************************************)
(* click_outside                                                           *)
(*                                                                         *)
(* The document: body > panel > button; "detached" is an element that is   *)
(* not in the document; "null" stands for a null node.                     *)
(***************************************************************************)
DocNodes == {"body", "panel", "button"}
WatchNodes == {"panel", "detached", "null"}
Callbacks == {"cbA", "cbB"}

Parent ==
    [n \in DocNodes \cup {"detached"} |->
        CASE n = "panel" -> "body"
          [] n = "button" -> "panel"
          [] OTHER -> "none"]

\* strict descendants only
RECURSIVE containsStrict(_, _)
containsStrict(node, other) ==
    /\ Parent[other] # "none"
    /\ (Parent[other] = node \/ containsStrict(node, Parent[other]))

\* Node.contains: other is node or a descendant of node
RECURSIVE contains(_, _)
contains(node, other) ==
    \/ other = node
    \/ (Parent[other] # "none" /\ contains(node, Parent[other]))

\* handle_click without the null guard
handle_click_no_guard(node, e) ==
    /\ (node = "null" \/ ~contains(node, e.target))
    /\ ~e.defaultPrevented

\* handle_click without the containment test
handle_click_no_contains(node, e) ==
    /\ node # "null"
    /\ ~e.defaultPrevented

\* the condition under which handle_click calls cb(event)
handle_click(node, e) ==
    /\ node # "null"
    /\ ~contains(node, e.target)
    /\ ~e.defaultPrevented

\* a listener of the document's capturing click list: the handle_click
\* closure of registration r (one closure per click_outside call)
DetectorListener(r) == [kind |-> "detector", id |-> r]

addEventListener(ls, l) == Append(ls, l)

\* removal that never matches (e.g. the capture flag left out)
removeEventListenerNoMatch(ls, r) == ls

\* removal keyed on the callback instead of the handle_click closure
removeEventListenerByCallback(ls, r) ==
    SelectSeq(ls, LAMBDA l :
        ~(l.kind = "detector" /\ handles[l.id].cb = handles[r].cb))

\* document.removeEventListener("click", handle_click, true) for the
\* closure of registration r
removeEventListener(ls, r) ==
    SelectSeq(ls, LAMBDA l : ~(l.kind = "detector" /\ l.id = r))

\* The capture phase on the document: the listeners run in registration
\* order, each seeing defaultPrevented as the earlier ones left it.
RECURSIVE CapturePhase(_, _, _, _)
CapturePhase(ls, target, prevented, acc) ==
    IF ls = <<>> THEN acc
    ELSE LET l == Head(ls) IN
         CapturePhase(Tail(ls), target, prevented,
                 IF handle_click(handles[l.id].node,
                                 [target |-> target, defaultPrevented |-> prevented])
                 THEN Append(acc, [reg |-> l.id, cb |-> handles[l.id].cb,
                                   target |-> target])
                 ELSE acc)

\* where a bubbling-phase handler calling preventDefault may sit: inside the
\* watched panel, outside it, or nowhere
BubbleHandlers == {"none", "button", "body"}

NoClick ==
    [target |-> "none", startPrevented |-> FALSE, bubbleHandler |-> "none",
     defaultPrevented |-> FALSE]

DetInit ==
    /\ handles = <<>>
    /\ listeners = <<>>
    /\ destroyCalls = <<>>
    /\ lastOp = [op |-> "init", reg |-> 0]
    /\ event = NoClick
    /\ calls = <<>>

\* click_outside(node, cb): a fresh handle_click closure is added to the
\* document and the handle is returned
ClickOutside(node, cb) ==
    /\ Len(handles) < MaxRegs
    /\ handles' = Append(handles, [node |-> node, cb |-> cb])
    /\ listeners' = addEventListener(listeners, DetectorListener(Len(handles) + 1))
    /\ destroyCalls' = Append(destroyCalls, "never")
    /\ lastOp' = [op |-> "click_outside", reg |-> Len(handles) + 1]
    /\ event' = NoClick
    /\ calls' = <<>>

\* handle.destroy() of registration r
Destroy(r) ==
    /\ listeners' = removeEventListener(listeners, r)
    /\ destroyCalls' = [destroyCalls EXCEPT
                          ![r] = IF @ = "never" THEN "once" ELSE "repeated"]
    /\ lastOp' = [op |-> "destroy", reg |-> r]
    /\ event' = NoClick
    /\ calls' = <<>>
    /\ UNCHANGED handles

\* One click is dispatched to the document: target t; sp tells whether a
\* handler before the document in capture order (on the window) called
\* preventDefault; bh is the node carrying a bubbling-phase handler that
\* calls preventDefault ("none": no such handler).  The document's
\* capturing listeners run first, the bubbling handler after them.
Click(t, sp, bh) ==
    /\ calls' = CapturePhase(listeners, t, sp, <<>>)
    /\ event' = [target |-> t, startPrevented |-> sp, bubbleHandler |-> bh,
                 defaultPrevented |->
                    \/ sp
                    \/ (bh # "none" /\ contains(bh, t))]
    /\ lastOp' = [op |-> "click", reg |-> 0]
    /\ UNCHANGED <<handles, listeners, destroyCalls>>

(***************************************************************************)
(* The two specifications: the detector (Spec) and the mapper (MapSpec).   *)
(***************************************************************************)
MapIdle ==
    /\ image = ScenarioImage
    /\ evt = MouseEventAt(ScenarioImage, 0, 0)
    /\ coords = Null
    /\ mapPc = "idle"

Init == DetInit /\ MapIdle

Next ==
    \/ \E n \in WatchNodes, cb \in Callbacks : ClickOutside(n, cb) /\ UNCHANGED mapVars
    \/ \E r \in 1..Len(handles) : Destroy(r) /\ UNCHANGED mapVars
    \/ \E t \in DocNodes, sp \in BOOLEAN, bh \in BubbleHandlers :
          Click(t, sp, bh) /\ UNCHANGED mapVars

Spec == Init /\ [][Next]_vars

MapNext == CallMapper /\ UNCHANGED detVars

MapStart == MapInit /\ DetInit

MapSpec == MapStart /\ [][MapNext]_vars

(***************************************************************************)
(* Properties of get_coordinates_of_clicked_image (checked under MapSpec). *)
(* The displayed image content is described here from the element's        *)
(* geometry alone: the image is scaled uniformly to fit the box and        *)
(* centred, so at most one axis carries padding.                           *)
(***************************************************************************)
Returned == mapPc = "returned"

\* natural aspect ratio at least as wide as the box: the width binds
WidthBinds(img) ==
    img.naturalWidth * img.height >= img.naturalHeight * img.width

ContentWidth(img) ==
    IF WidthBinds(img) THEN Rat(img.width)
    ELSE Norm(img.naturalWidth * img.height, img.naturalHeight)

ContentHeight(img) ==
    IF WidthBinds(img)
    THEN Norm(img.naturalHeight * img.width, img.naturalWidth)
    ELSE Rat(img.height)

PadX(img) == RDiv(RSub(Rat(img.width), ContentWidth(img)), Rat(2))
PadY(img) == RDiv(RSub(Rat(img.height), ContentHeight(img)), Rat(2))

\* pointer position relative to the rect origin
RelX(img, e) == RSub(e.clientX, Rat(img.left))
RelY(img, e) == RSub(e.clientY, Rat(img.top))

\* strictly inside the bounding rectangle, strictly outside the content
InBand(img, e) ==
    /\ RGt(RelX(img, e), Rat(0)) /\ RLt(RelX(img, e), Rat(img.width))
    /\ RGt(RelY(img, e), Rat(0)) /\ RLt(RelY(img, e), Rat(img.height))
    /\ \/ RLt(RelX(img, e), PadX(img))
       \/ RGt(RelX(img, e), RAdd(PadX(img), ContentWidth(img)))
       \/ RLt(RelY(img, e), PadY(img))
       \/ RGt(RelY(img, e), RAdd(PadY(img), ContentHeight(img)))

\* the larger of the two scale factors
BindingScale(img) ==
    IF WidthBinds(img) THEN Norm(img.naturalWidth, img.width)
                       ELSE Norm(img.naturalHeight, img.height)

\* the unrounded native position
UnroundedX(img, e) == RMul(RSub(RelX(img, e), PadX(img)), BindingScale(img))
UnroundedY(img, e) == RMul(RSub(RelY(img, e), PadY(img)), BindingScale(img))

\* C3: every pointer position strictly inside the letterbox band (inside
\* the bounding rectangle, strictly outside the displayed image content)
\* yields null.
C3_BandIsNull == (Returned /\ InBand(image, evt)) => coords = Null

\* C4: the result is null or a pair of integers (x, y) with
\* 0 <= x < naturalWidth and 0 <= y < naturalHeight.
C4_ResultInRange ==
    Returned =>
        \/ coords = Null
        \/ /\ Len(coords) = 2
           /\ coords[1] \in 0..(image.naturalWidth - 1)
           /\ coords[2] \in 0..(image.naturalHeight - 1)

\* a click that maps to the last native pixel of an image wider and taller
\* than one pixel
C4_Witness ==
    /\ Returned
    /\ image.naturalWidth > 1 /\ image.naturalHeight > 1
    /\ coords = <<image.naturalWidth - 1, image.naturalHeight - 1>>

\* the click at (50, 50) from the rect origin of the 200x100 box holding
\* the 400x100 image
ScenarioClick ==
    /\ Returned
    /\ image = ScenarioImage
    /\ evt = MouseEventAt(ScenarioImage, 50 * PosDen, 50 * PosDen)

\* C6 as stated: the 200x100 box with the 400x100 image takes the
\* height-constrained branch with no horizontal padding and (50, 50) maps
\* to (50, 50).
C6_ScenarioAsStated ==
    ScenarioClick =>
        /\ ~WidthConstrained(image)
        /\ x_offset(image) = Rat(0)
        /\ coords = <<50, 50>>

\* C6 amended: the 200x100 box with the 400x100 image takes the
\* width-constrained branch (xScale 2 > yScale 1) with a vertical offset of
\* 25, and (50, 50) maps to (100, 50).
C6_ScenarioAmended ==
    ScenarioClick =>
        /\ WidthConstrained(image)
        /\ xScale(image) = Rat(2) /\ yScale(image) = Rat(1)
        /\ y_offset(image) = Rat(25)
        /\ coords = <<100, 50>>

C6_Witness == ScenarioClick /\ coords # Null

Tie(img) == img.naturalWidth * img.height = img.naturalHeight * img.width

AtCentre(img, e) ==
    /\ RelX(img, e) = Norm(img.width, 2)
    /\ RelY(img, e) = Norm(img.height, 2)

\* C9: when xScale = yScale the height-constrained branch is taken, the
\* letterbox offset is 0, the result equals what the width-constrained
\* branch would return, and a click at the exact centre maps to
\* (round(naturalWidth / 2), round(naturalHeight / 2)).
C9_TieAsStated ==
    (Returned /\ Tie(image)) =>
        /\ ~WidthConstrained(image)
        /\ x_offset(image) = Rat(0)
        /\ coords = (LET p == WidthBranch(image, evt)
                     IN  IF OutOfRange(p, image) THEN Null ELSE p)
        /\ AtCentre(image, evt) =>
              coords = << MathRound(Norm(image.naturalWidth, 2)),
                          MathRound(Norm(image.naturalHeight, 2)) >>

\* C10: with (u, v) the unrounded native position, a coordinate is returned
\* if and only if -1/2 <= u < naturalWidth - 1/2 and
\* -1/2 <= v < naturalHeight - 1/2, and it is (floor(u + 1/2), floor(v + 1/2)).
C10_AcceptanceRegion ==
    Returned =>
        LET u == UnroundedX(image, evt)
            v == UnroundedY(image, evt)
            accepted ==
                /\ RLe(RSub(Rat(0), Half), u)
                /\ RLt(u, RSub(Rat(image.naturalWidth), Half))
                /\ RLe(RSub(Rat(0), Half), v)
                /\ RLt(v, RSub(Rat(image.naturalHeight), Half))
        IN  /\ (coords # Null) <=> accepted
            /\ (coords # Null) =>
                  coords = <<RFloor(RAdd(u, Half)), RFloor(RAdd(v, Half))>>

\* a pointer less than half a native pixel before the left or top edge of
\* the image content that is accepted as coordinate 0
C10_Witness ==
    /\ Returned
    /\ coords # Null
    /\ \/ RLt(UnroundedX(image, evt), Rat(0))
       \/ RLt(UnroundedY(image, evt), Rat(0))

(***************************************************************************)
(* Properties of click_outside (checked under Spec).  What is inside a     *)
(* node is written out here from the document tree.                        *)
(***************************************************************************)
Subtree ==
    [n \in DocNodes \cup {"detached"} |->
        CASE n = "body" -> {"body", "panel", "button"}
          [] n = "panel" -> {"panel", "button"}
          [] n = "button" -> {"button"}
          [] OTHER -> {"detached"}]

Regs == 1..Len(handles)
Live(r) == destroyCalls[r] = "never"
Clicked == lastOp.op = "click"

\* invocations of the callback made through registration r by the last step
CallsOf(r) == Cardinality({i \in 1..Len(calls) : calls[i].reg = r})

\* the last click is one the registration should react to
Qualifies(r) ==
    /\ handles[r].node # "null"
    /\ event.target \notin Subtree[handles[r].node]
    /\ ~event.startPrevented

\* C1: for every click and every live registration, cb is invoked exactly
\* once with that event if node is non-null, the target is neither node nor
\* a descendant of it and defaultPrevented is false when the handler runs,
\* and zero times otherwise.
C1_OncePerQualifyingClick ==
    Clicked =>
        /\ \A r \in Regs :
              CallsOf(r) = IF Live(r) /\ Qualifies(r) THEN 1 ELSE 0
        /\ \A i \in 1..Len(calls) :
              /\ calls[i].reg \in Regs
              /\ calls[i].cb = handles[calls[i].reg].cb
              /\ calls[i].target = event.target

\* an unprevented click on an ancestor of the watched panel reached a live
\* registration, and a click on the panel itself or inside it did not
C1_Witness ==
    /\ Clicked
    /\ \E r \in Regs :
          /\ Live(r) /\ handles[r].node = "panel" /\ event.target = "body"
          /\ ~event.startPrevented /\ CallsOf(r) = 1

\* C2: once destroy has been called on a handle, no later step invokes cb
\* through that registration.
C2_NoCallAfterDestroy ==
    [][\A r \in Regs :
          ~Live(r) => \A i \in 1..Len(calls') : calls'[i].reg # r]_vars

\* a click the destroyed registration would have reacted to
C2_Witness ==
    /\ Clicked
    /\ \E r \in Regs : ~Live(r) /\ Qualifies(r) /\ CallsOf(r) = 0

\* C5 as stated: a live registration on a null node reacts to every click
\* whose default action has not been prevented.
C5_NullAsStated ==
    Clicked =>
        \A r \in Regs :
            (Live(r) /\ handles[r].node = "null" /\ ~event.startPrevented)
                => CallsOf(r) = 1

\* C5 amended: a registration on a null node never invokes the callback; a
\* live registration on a detached (non-null) node invokes it for every
\* click whose default action has not been prevented, whatever the target.
C5_NullNeverDetachedAlways ==
    Clicked =>
        \A r \in Regs :
            /\ handles[r].node = "null" => CallsOf(r) = 0
            /\ (Live(r) /\ handles[r].node = "detached") =>
                  CallsOf(r) = IF event.startPrevented THEN 0 ELSE 1

C5_Witness ==
    /\ Clicked
    /\ ~event.startPrevented
    /\ \E r \in Regs : Live(r) /\ handles[r].node = "null" /\ CallsOf(r) = 0
    /\ \E r \in Regs : Live(r) /\ handles[r].node = "detached" /\ CallsOf(r) = 1

\* the bubbling-phase handler of the last click sat inside the region
\* watched by r, ran, and called preventDefault
BubblePreventedInside(r) ==
    /\ handles[r].node # "null"
    /\ event.bubbleHandler # "none"
    /\ event.bubbleHandler \in Subtree[handles[r].node]
    /\ event.target \in Subtree[event.bubbleHandler]

\* C7: when a bubbling-phase handler attached inside the watched region
\* calls preventDefault on a click, the callback is not invoked for that
\* click.
C7_BubblePreventSuppresses ==
    Clicked =>
        \A r \in Regs : (Live(r) /\ BubblePreventedInside(r)) => CallsOf(r) = 0

C7_Witness ==
    /\ Clicked
    /\ ~event.startPrevented /\ event.defaultPrevented
    /\ \E r \in Regs : Live(r) /\ BubblePreventedInside(r) /\ CallsOf(r) = 0

\* C8: the document holds exactly one listener per click_outside call whose
\* handle has not been destroyed, whatever other handles (same node, same
\* callback) have been destroyed once or repeatedly, and those
\* registrations keep reacting to qualifying clicks.
C8_OwnListenerOnly ==
    /\ listeners =
          SelectSeq([r \in Regs |-> DetectorListener(r)],
                    LAMBDA l : destroyCalls[l.id] = "never")
    /\ Clicked =>
          \A r \in Regs : (Live(r) /\ Qualifies(r)) => CallsOf(r) >= 1

\* two registrations on the same node with the same callback, the first
\* destroyed more than once, the second still reacting
C8_Witness ==
    /\ Clicked
    /\ Len(handles) = 2
    /\ handles[1] = handles[2]
    /\ destroyCalls[1] = "repeated" /\ Live(2)
    /\ CallsOf(2) = 1 /\ CallsOf(1) = 0
    /\ Len(listeners) = 1

====
